---- MODULE Spec2Model ----
(***************************************************************************)
(* go-server: the create-student request handler (student.New), the        *)
(* validator driven by the struct tags of types.Student, the response      *)
(* encoder (response.WriteJson) and the sqlite Storage implementation.     *)
(***************************************************************************)
EXTENDS Integers, Sequences, FiniteSets, TLC

(* ---------------------------------------------------------------- bounds *)
MaxRequests == 2
MaxEmailLen == 5
MaxSignals == 2
MaxInFlight == 1
MaxId == 130

(* ------------------------------------------------------ program constants *)
AgeMin == 1
AgeMax == 100
StatusBadRequest == 400
StatusInternalServerError == 500
StatusCreated == 201

StatusError == "Error"
StatusOk == "OK"
ContentTypeJson == "application/json"

Requests == 1..MaxRequests

(* ------------------------------------------------------------ input data *)
Alphabet == {"a", "@", "."}

RECURSIVE SeqsUpTo(_)
SeqsUpTo(n) ==
  IF n = 0 THEN {<<>>}
  ELSE LET shorter == SeqsUpTo(n - 1)
       IN  shorter \cup {Append(s, c) : s \in {t \in shorter : Len(t) = n - 1}, c \in Alphabet}

Emails == SeqsUpTo(MaxEmailLen)
Names == {"", "Ann"}
Ages == ((AgeMin - 2)..(AgeMin + 1)) \cup ((AgeMax - 1)..(AgeMax + 1))

AnnEmail == <<"a", "@", "a", ".", "a">>
BadEmail == <<"a">>

(* A JSON member of the request body: absent, present with a value of the  *)
(* field's Go type, or present with a value of another JSON type.          *)
Absent(zero) == [t |-> "absent", v |-> zero]
Ok(val) == [t |-> "ok", v |-> val]
Mismatch(zero) == [t |-> "mismatch", v |-> zero]

EmptyBody == [kind |-> "empty", name |-> Absent(""), email |-> Absent(<<>>), age |-> Absent(0)]
MalformedBody == [kind |-> "malformed", name |-> Absent(""), email |-> Absent(<<>>), age |-> Absent(0)]
Object(n, e, a) == [kind |-> "object", name |-> n, email |-> e, age |-> a]

AllBodies ==
  {EmptyBody, MalformedBody} \cup
  {Object(n, e, a) :
     n \in {Absent(""), Mismatch("")} \cup {Ok(x) : x \in Names},
     e \in {Absent(<<>>), Mismatch(<<>>)} \cup {Ok(x) : x \in Emails},
     a \in {Absent(0), Mismatch(0)} \cup {Ok(x) : x \in Ages}}

Bodies ==
  { EmptyBody,
    MalformedBody,
    Object(Ok("Ann"), Ok(AnnEmail), Mismatch(0)),
    Object(Ok("Ann"), Ok(AnnEmail), Ok(30)),
    Object(Ok("Ann"), Ok(AnnEmail), Ok(AgeMin)),
    Object(Ok(""), Ok(BadEmail), Ok(0)),
    Object(Ok("Ann"), Ok(AnnEmail), Ok(AgeMax + 1)) }

(* The bodies sent while the lifecycle is explored.                        *)
LifeBodies ==
  { EmptyBody,
    Object(Ok("Ann"), Ok(AnnEmail), Ok(30)) }

(* ------------------------------------------------------- types.Student *)
Student(name, email, age) == [Name |-> name, Email |-> email, Age |-> age]
ZeroStudent == Student("", <<>>, 0)

(* ------------------------------------------- json.Decoder.Decode(&student) *)
NoErr == ""
ErrEOF == "EOF"
ErrSyntax == "invalid character"
ErrUnmarshalType == "json: cannot unmarshal"

DecodeErr(b) ==
  CASE b.kind = "empty" -> ErrEOF
    [] b.kind = "malformed" -> ErrSyntax
    [] OTHER ->
         IF "mismatch" \in {b.name.t, b.email.t, b.age.t} THEN ErrUnmarshalType ELSE NoErr

DecodeStudent(b) ==
  IF b.kind # "object" THEN ZeroStudent
  ELSE Student(IF b.name.t = "ok" THEN b.name.v ELSE "",
               IF b.email.t = "ok" THEN b.email.v ELSE <<>>,
               IF b.age.t = "ok" THEN b.age.v ELSE 0)

(* ------------------------------------------------- validator.Struct *)
(* The `email` tag: validator's address regular expression, restricted to  *)
(* the alphabet {a, @, .}.  local = atom+(.atom+)*, domain = (label.)+     *)
(* label with an optional trailing dot, a label starts and ends with an    *)
(* alphanumeric and may hold dots inside.                                  *)
Sub(s, i, j) == [k \in 1..(j - i + 1) |-> s[i + k - 1]]

NoAt(s) == \A k \in 1..Len(s) : s[k] # "@"

IsLocal(s) ==
  /\ Len(s) >= 1
  /\ NoAt(s)
  /\ s[1] = "a"
  /\ s[Len(s)] = "a"
  /\ \A k \in 1..(Len(s) - 1) : ~(s[k] = "." /\ s[k + 1] = ".")

IsLabel(s) ==
  /\ Len(s) >= 1
  /\ NoAt(s)
  /\ s[1] = "a"
  /\ s[Len(s)] = "a"

IsDottedDomain(s) ==
  \E k \in 1..Len(s) :
    /\ s[k] = "."
    /\ IsLabel(Sub(s, 1, k - 1))
    /\ IsLabel(Sub(s, k + 1, Len(s)))

IsDomain(s) ==
  \/ IsDottedDomain(s)
  \/ /\ Len(s) >= 1
     /\ s[Len(s)] = "."
     /\ IsDottedDomain(Sub(s, 1, Len(s) - 1))

IsEmail(s) ==
  \E k \in 1..Len(s) :
    /\ s[k] = "@"
    /\ IsLocal(Sub(s, 1, k - 1))
    /\ IsDomain(Sub(s, k + 1, Len(s)))

FieldNames == <<"Name", "Email", "Age">>

(* Mutant: the upper bound of Age is not in the tag list.                  *)
TagsOfNoLte(field) ==
  CASE field = "Name" -> <<"required">>
    [] field = "Email" -> <<"required", "email">>
    [] field = "Age" -> <<"required", "gte">>

(* The validate tags of types.Student, in the order they are written.      *)
TagsOf(field) ==
  CASE field = "Name" -> <<"required">>
    [] field = "Email" -> <<"required", "email">>
    [] field = "Age" -> <<"required", "gte", "lte">>

(* `required` fails on the zero value of the field's type.                 *)
HasValue(field, st) ==
  CASE field = "Name" -> st.Name # ""
    [] field = "Email" -> st.Email # <<>>
    [] field = "Age" -> st.Age # 0

(* Mutant: gte compared strictly.                                          *)
TagHoldsStrictGte(tag, field, st) ==
  CASE tag = "required" -> HasValue(field, st)
    [] tag = "email" -> IsEmail(st.Email)
    [] tag = "gte" -> st.Age > AgeMin
    [] tag = "lte" -> st.Age <= AgeMax

TagHolds(tag, field, st) ==
  CASE tag = "required" -> HasValue(field, st)
    [] tag = "email" -> IsEmail(st.Email)
    [] tag = "gte" -> st.Age >= AgeMin
    [] tag = "lte" -> st.Age <= AgeMax

NoTag == "-"

(* The first tag of the field that fails: the validator stops a field at   *)
(* its first failing tag and goes on with the next field.                  *)
RECURSIVE FirstFailing(_, _, _)
FirstFailing(field, st, i) ==
  IF i > Len(TagsOf(field)) THEN NoTag
  ELSE IF ~TagHolds(TagsOf(field)[i], field, st) THEN TagsOf(field)[i]
  ELSE FirstFailing(field, st, i + 1)

FieldError(field, tag) == [Field |-> field, ActualTag |-> tag]

(* Mutant: validation stops at the first field that fails.                 *)
RECURSIVE StructFromFirstOnly(_, _)
StructFromFirstOnly(st, i) ==
  IF i > Len(FieldNames) THEN <<>>
  ELSE LET tag == FirstFailing(FieldNames[i], st, 1)
       IN  IF tag = NoTag THEN StructFromFirstOnly(st, i + 1)
           ELSE <<FieldError(FieldNames[i], tag)>>

RECURSIVE StructFrom(_, _)
StructFrom(st, i) ==
  IF i > Len(FieldNames) THEN <<>>
  ELSE LET tag == FirstFailing(FieldNames[i], st, 1)
           rest == StructFrom(st, i + 1)
       IN  IF tag = NoTag THEN rest ELSE <<FieldError(FieldNames[i], tag)>> \o rest

(* validator.New().Struct(student): the empty sequence stands for nil.     *)
Struct(st) == StructFrom(st, 1)

(* ------------------------------------------------------ package response *)
Digits == <<"0", "1", "2", "3", "4", "5", "6", "7", "8", "9">>

(* The decimal text json.Encoder writes for an int64.                      *)
RECURSIVE Itoa(_)
Itoa(n) ==
  IF n < 0 THEN <<"-">> \o Itoa(0 - n)
  ELSE IF n < 10 THEN <<Digits[n + 1]>>
  ELSE Itoa(n \div 10) \o <<Digits[(n % 10) + 1]>>

DigitValue(c) == CHOOSE d \in 0..9 : Digits[d + 1] = c

RECURSIVE AtoiFrom(_, _, _)
AtoiFrom(s, i, acc) ==
  IF i > Len(s) THEN acc ELSE AtoiFrom(s, i + 1, acc * 10 + DigitValue(s[i]))

(* The integer a JSON reader recovers from that text.                      *)
Atoi(s) ==
  IF Len(s) >= 1 /\ s[1] = "-" THEN 0 - AtoiFrom(s, 2, 0) ELSE AtoiFrom(s, 1, 0)

(* JSON documents written to a response body.                              *)
Response(status, error) == [kind |-> "Response", Status |-> status, Error |-> error, id |-> <<>>]
(* Mutant: the identifier is narrowed to int8 before it is encoded.        *)
IdDocumentInt8(n) ==
  [kind |-> "id", Status |-> "", Error |-> <<>>, id |-> Itoa(((n + 128) % 256) - 128)]

IdDocument(n) == [kind |-> "id", Status |-> "", Error |-> <<>>, id |-> Itoa(n)]
(* Errors of database/sql and of the sqlite3 driver.  A driver error is a  *)
(* struct with exported numeric fields (Code, ...), which the encoder      *)
(* writes; an errors.New value has no exported field and encodes as {}.    *)
ErrDbClosed == "sql: database is closed"
ErrBusy == "database is locked"
ErrFull == "database or disk is full"
ErrNoLastId == "LastInsertId is not supported"

SqliteCode(e) ==
  CASE e = ErrBusy -> 5
    [] e = ErrFull -> 13
    [] OTHER -> 0

ErrorDocument(e) ==
  [kind |-> "error", Status |-> "",
   Error |-> IF SqliteCode(e) # 0 THEN <<"Code">> \o Itoa(SqliteCode(e)) ELSE <<>>,
   id |-> <<>>]

GeneralError(e) == Response(StatusError, <<e>>)

FieldMessage(fe) ==
  CASE fe.ActualTag = "requried" -> <<"field", fe.Field, "is requried filed">>
    [] OTHER -> <<"field", fe.Field, "is invalid">>

RECURSIVE ErrMsgs(_, _)
ErrMsgs(errs, i) ==
  IF i > Len(errs) THEN <<>> ELSE <<FieldMessage(errs[i])>> \o ErrMsgs(errs, i + 1)

(* strings.Join(errMsgs, ","): the messages in order, a comma between two. *)
RECURSIVE Join(_, _)
Join(msgs, sep) ==
  IF Len(msgs) = 0 THEN <<>>
  ELSE IF Len(msgs) = 1 THEN msgs[1]
  ELSE msgs[1] \o <<sep>> \o Join(Tail(msgs), sep)

ValidationError(errs) == Response(StatusError, Join(ErrMsgs(errs, 1), ","))

(* An http.ResponseWriter: the header is sent by the first WriteHeader, a  *)
(* later WriteHeader or Header().Set changes nothing that was sent.        *)
FreshWriter ==
  [wroteHeader |-> FALSE, Code |-> 0, ContentType |-> "", Header |-> "", Body |-> <<>>]

(* A value encoding/json cannot encode (the test's make(chan int)).        *)
Chan == [kind |-> "chan", Status |-> "", Error |-> <<>>, id |-> <<>>]
Encodable(data) == data.kind # "chan"
ErrUnsupportedType == "json: unsupported type"

StatusOK == 200

(* w.Header().Set("Content-Type", v): the header map of the writer; what   *)
(* is set after the header went out is not sent.                           *)
HeaderSet(wr, v) == [wr EXCEPT !.Header = v]

(* w.WriteHeader(status): the first call sends the status line with the    *)
(* header map as it is then; later calls are ignored.                      *)
WriteHeader(wr, status) ==
  IF wr.wroteHeader THEN wr
  ELSE [wr EXCEPT !.wroteHeader = TRUE, !.Code = status, !.ContentType = wr.Header]

(* w.Write: a body write before WriteHeader sends 200 first.               *)
Write(wr, doc) ==
  LET sent == WriteHeader(wr, StatusOK)
  IN  [sent EXCEPT !.Body = Append(@, doc)]

(* Mutant: the encoder streams, and has written part of the document when *)
(* it meets the value it cannot encode.                                    *)
EncodePartial(wr, data) ==
  IF Encodable(data) THEN Write(wr, data) ELSE Write(wr, [data EXCEPT !.kind = "partial"])

(* json.NewEncoder(w).Encode(data): marshals into a buffer, and writes it  *)
(* only when marshalling succeeded.                                        *)
Encode(wr, data) ==
  IF Encodable(data) THEN Write(wr, data) ELSE wr

EncodeError(data) == IF Encodable(data) THEN NoErr ELSE ErrUnsupportedType

(* Mutant: the body is encoded before the header is set.                   *)
WriteJsonBodyFirst(wr, status, data) ==
  WriteHeader(HeaderSet(Encode(wr, data), ContentTypeJson), status)

(* response.WriteJson: the writer after the call ...                       *)
WriteJson(wr, status, data) ==
  Encode(WriteHeader(HeaderSet(wr, ContentTypeJson), status), data)

(* ... and the error it returns.                                           *)
WriteJsonError(wr, status, data) == EncodeError(data)

(* ------------------------------------------------------------------ state *)
VARIABLES
  pc,            \* position of each request's handler goroutine
  body,          \* r.Body of each request
  student,       \* var student types.Student
  err,           \* err of the handler (decode, then CreateStudent)
  validateErrs,  \* validationError.(validator.ValidationErrors)
  lastId,        \* lastId returned by storage.CreateStudent
  w,             \* the http.ResponseWriter of each request
  writes,        \* number of response.WriteJson calls made for the request
  calls,         \* number of storage.CreateStudent calls made for the request
  log,           \* slog events of the handler, per request
  students,      \* rows of table students, in insertion order
  sqliteSeq,     \* sqlite_sequence of table students (AUTOINCREMENT)
  mainPc,        \* position of func main
  lisPc,         \* position of the goroutine that runs server.ListenAndServe
  proc,          \* the process: running, or how it ended
  done,          \* number of signals buffered in channel done (capacity 1)
  sigSent,       \* number of termination signals the OS has sent
  inShutdown,    \* server.inShutdown, set by server.Shutdown
  deadline,      \* TRUE once the 5-second context of Shutdown has expired
  shutdownErr,   \* err returned by server.Shutdown
  listenErr,     \* err returned by server.ListenAndServe
  listenCalls,   \* number of server.ListenAndServe calls
  mainLog,       \* slog/log events of main and of the listener goroutine
  cfg,           \* cfg of main: "" until config.MustLoad returned it
  storage,       \* storage of main: "" until sqlite.New returned it
  rr,            \* the httptest recorder of TestWriteJson
  tc,            \* the test case of TestWriteJson, and what the call returned
  schema,        \* columns of table students in the database file, <<>> if no table
  schemaInits,   \* number of CREATE TABLE statements the program has run
  readyW         \* the http.ResponseWriter of a GET /api/ready request

reqVars == <<pc, body, student, err, validateErrs, lastId, w, writes, calls, log>>
storeVars == <<students, sqliteSeq>>
lifeVars == <<mainPc, lisPc, proc, done, sigSent, inShutdown, deadline, shutdownErr,
              listenErr, listenCalls, mainLog>>
bootVars == <<cfg, storage>>
testVars == <<rr, tc>>
schemaVars == <<schema, schemaInits>>

vars == <<pc, body, student, err, validateErrs, lastId, w, writes, calls, log,
          students, sqliteSeq, mainPc, lisPc, proc, done, sigSent, inShutdown,
          deadline, shutdownErr, listenErr, listenCalls, mainLog, cfg, storage,
          rr, tc, schema, schemaInits, readyW>>

(* A row of table students; `by` records the request whose insert made it  *)
(* (0 for a row that was in the file when the store was opened).           *)
Row(id, name, email, age, by) == [id |-> id, name |-> name, email |-> email, age |-> age, by |-> by]

(* sqlite.New: CREATE TABLE IF NOT EXISTS keeps the rows of an existing    *)
(* file; a fresh file has none.                                            *)
(* The columns of CREATE TABLE IF NOT EXISTS students(...).                *)
StudentsColumns == <<"id", "name", "age", "email">>

ExistingTables == {<<>>, <<Row(1, "Ann", AnnEmail, 30, 0)>>}

(* TestWriteJson: a status, and a payload: the success payload {"id": n},  *)
(* the Response documents, an encoded store error, and a channel.          *)
TestCase(status, n, data) ==
  [status |-> status, n |-> n, data |-> data, err |-> NoErr, ran |-> FALSE]
IdValues == (0 - MaxId)..MaxId
TestStatuses == {StatusOK, StatusCreated, StatusBadRequest, StatusInternalServerError}
TestPayloads == {Response(StatusOk, <<>>), GeneralError(ErrEOF), ErrorDocument(ErrBusy), Chan}
TestCases ==
  {TestCase(s, n, IdDocument(n)) : s \in TestStatuses, n \in IdValues}
    \cup {TestCase(s, 0, d) : s \in TestStatuses, d \in TestPayloads}

InitProgram ==
  /\ pc = [r \in Requests |-> "idle"]
  /\ body = [r \in Requests |-> EmptyBody]
  /\ student = [r \in Requests |-> ZeroStudent]
  /\ err = [r \in Requests |-> NoErr]
  /\ validateErrs = [r \in Requests |-> <<>>]
  /\ lastId = [r \in Requests |-> 0]
  /\ w = [r \in Requests |-> FreshWriter]
  /\ writes = [r \in Requests |-> 0]
  /\ calls = [r \in Requests |-> 0]
  /\ log = [r \in Requests |-> <<>>]
  /\ students \in ExistingTables
  /\ sqliteSeq = Len(students)
  /\ mainPc = "load"
  /\ lisPc = "none"
  /\ proc = "running"
  /\ done = 0
  /\ sigSent = 0
  /\ inShutdown = FALSE
  /\ deadline = FALSE
  /\ shutdownErr = NoErr
  /\ listenErr = NoErr
  /\ listenCalls = 0
  /\ mainLog = <<>>
  /\ cfg = ""
  /\ storage = ""
  /\ schema = IF students = <<>> THEN <<>> ELSE StudentsColumns
  /\ schemaInits = 0
  /\ readyW = FreshWriter

Init ==
  /\ InitProgram
  /\ rr = FreshWriter
  /\ tc = TestCase(StatusOK, 0, Response(StatusOk, <<>>))

(* TestWriteJson starts every case on a fresh httptest.NewRecorder().      *)
InitW ==
  /\ InitProgram
  /\ rr = FreshWriter
  /\ tc \in TestCases

(* ------------------------------------------------------ Sqlite.CreateStudent *)
(* What the driver does at each of the three calls.                        *)
PrepareErrors == {ErrDbClosed}
ExecErrors == {ErrBusy, ErrFull}
LastInsertIdErrors == {ErrNoLastId}

(* INSERT with AUTOINCREMENT: the new rowid is one more than the largest   *)
(* rowid the table ever held.                                              *)
(* Mutant: the table has no AUTOINCREMENT sequence of its own and hands    *)
(* out the last identifier again.                                          *)
NextRowIdReuse(seq) == IF seq = 0 THEN 1 ELSE seq

NextRowId(seq) == seq + 1

(* Mutant: an insert of values the table already holds adds no row.        *)
InsertRowDedup(table, seq, name, email, age, by) ==
  IF \E i \in 1..Len(table) :
       table[i].name = name /\ table[i].email = email /\ table[i].age = age
  THEN table
  ELSE Append(table, Row(NextRowId(seq), name, email, age, by))

InsertRow(table, seq, name, email, age, by) ==
  Append(table, Row(NextRowId(seq), name, email, age, by))

(* Mutant: the identifier returned on success is the one before the insert *)
CreateStudentResultStaleId(table, seq, name, email, age, by, stage, e) ==
  CASE stage = "prepare" ->
         [id |-> 0, err |-> e, students |-> table, sqliteSeq |-> seq]
    [] stage = "exec" ->
         [id |-> 0, err |-> e, students |-> table, sqliteSeq |-> seq]
    [] stage = "lastInsertId" ->
         [id |-> 0, err |-> e,
          students |-> InsertRow(table, seq, name, email, age, by),
          sqliteSeq |-> NextRowId(seq)]
    [] OTHER ->
         [id |-> seq, err |-> NoErr,
          students |-> InsertRow(table, seq, name, email, age, by),
          sqliteSeq |-> NextRowId(seq)]

(* Result of CreateStudent(name, email, age) as a record                   *)
(* [id, err, students, sqliteSeq]; stage tells where the call ends.        *)
CreateStudentResult(table, seq, name, email, age, by, stage, e) ==
  CASE stage = "prepare" ->
         [id |-> 0, err |-> e, students |-> table, sqliteSeq |-> seq]
    [] stage = "exec" ->
         [id |-> 0, err |-> e, students |-> table, sqliteSeq |-> seq]
    [] stage = "lastInsertId" ->
         [id |-> 0, err |-> e,
          students |-> InsertRow(table, seq, name, email, age, by),
          sqliteSeq |-> NextRowId(seq)]
    [] OTHER ->
         [id |-> NextRowId(seq), err |-> NoErr,
          students |-> InsertRow(table, seq, name, email, age, by),
          sqliteSeq |-> NextRowId(seq)]

CreateOutcomes ==
  {<<"prepare", e>> : e \in PrepareErrors} \cup
  {<<"exec", e>> : e \in ExecErrors} \cup
  {<<"lastInsertId", e>> : e \in LastInsertIdErrors} \cup
  {<<"ok", NoErr>>}

(* ------------------------------------------------------------ student.New *)
(* Mutant: a connection is still accepted after the listener was closed.   *)
AcceptWhileDraining(r, B) ==
  /\ proc = "running"
  /\ lisPc \in {"serving", "closed"}
  /\ pc[r] = "idle"
  /\ \E b \in B : body' = [body EXCEPT ![r] = b]
  /\ pc' = [pc EXCEPT ![r] = "decode"]
  /\ UNCHANGED <<student, err, validateErrs, lastId, w, writes, calls, log, students, sqliteSeq>>
  /\ UNCHANGED <<lifeVars, bootVars, testVars, schemaVars, readyW>>

(* A request arrives at POST /api/students with a body from B.             *)
Accept(r, B) ==
  /\ proc = "running"
  /\ lisPc = "serving"
  /\ pc[r] = "idle"
  /\ \E b \in B : body' = [body EXCEPT ![r] = b]
  /\ pc' = [pc EXCEPT ![r] = "decode"]
  /\ UNCHANGED <<student, err, validateErrs, lastId, w, writes, calls, log, students, sqliteSeq>>
  /\ UNCHANGED <<lifeVars, bootVars, testVars, schemaVars, readyW>>

(* Mutant: only the blank body is answered, any other decode error goes   *)
(* on to validation.                                                       *)
DecodeOnlyEOF(r) ==
  /\ proc = "running"
  /\ pc[r] = "decode"
  /\ LET e == DecodeErr(body[r])
     IN  /\ err' = [err EXCEPT ![r] = e]
         /\ student' = [student EXCEPT ![r] = DecodeStudent(body[r])]
         /\ IF e = ErrEOF
            THEN /\ w' = [w EXCEPT ![r] = WriteJson(w[r], StatusBadRequest, GeneralError(e))]
                 /\ writes' = [writes EXCEPT ![r] = @ + 1]
                 /\ pc' = [pc EXCEPT ![r] = "done"]
            ELSE /\ pc' = [pc EXCEPT ![r] = "validate"]
                 /\ UNCHANGED <<w, writes>>
  /\ UNCHANGED <<body, validateErrs, lastId, calls, log, students, sqliteSeq>>
  /\ UNCHANGED <<lifeVars, bootVars, testVars, schemaVars, readyW>>

(* Mutant: a body that does not decode ends the process instead of        *)
(* getting a response.                                                     *)
DecodeFatal(r) ==
  /\ proc = "running"
  /\ pc[r] = "decode"
  /\ LET e == DecodeErr(body[r])
     IN  /\ err' = [err EXCEPT ![r] = e]
         /\ student' = [student EXCEPT ![r] = DecodeStudent(body[r])]
         /\ IF e # NoErr
            THEN /\ mainLog' = Append(mainLog, e)
                 /\ proc' = "fatal"
                 /\ UNCHANGED pc
            ELSE /\ pc' = [pc EXCEPT ![r] = "validate"]
                 /\ UNCHANGED <<proc, mainLog>>
  /\ UNCHANGED <<w, writes, body, validateErrs, lastId, calls, log, students, sqliteSeq>>
  /\ UNCHANGED <<mainPc, lisPc, done, sigSent, inShutdown, deadline, shutdownErr, listenErr, listenCalls>>
  /\ UNCHANGED <<bootVars, testVars, schemaVars, readyW>>

(* students.go 25-36 *)
Decode(r) ==
  /\ proc = "running"
  /\ pc[r] = "decode"
  /\ LET e == DecodeErr(body[r])
     IN  /\ err' = [err EXCEPT ![r] = e]
         /\ student' = [student EXCEPT ![r] = DecodeStudent(body[r])]
         /\ IF e # NoErr
            THEN /\ w' = [w EXCEPT ![r] = WriteJson(w[r], StatusBadRequest, GeneralError(e))]
                 /\ writes' = [writes EXCEPT ![r] = @ + 1]
                 /\ pc' = [pc EXCEPT ![r] = "done"]
            ELSE /\ pc' = [pc EXCEPT ![r] = "validate"]
                 /\ UNCHANGED <<w, writes>>
  /\ UNCHANGED <<body, validateErrs, lastId, calls, log, students, sqliteSeq>>
  /\ UNCHANGED <<lifeVars, bootVars, testVars, schemaVars, readyW>>

(* students.go 38-43 *)
(* Mutant: a validation failure returns without a response.               *)
ValidateSilent(r) ==
  /\ proc = "running"
  /\ pc[r] = "validate"
  /\ LET errs == Struct(student[r])
     IN  /\ validateErrs' = [validateErrs EXCEPT ![r] = errs]
         /\ pc' = [pc EXCEPT ![r] = IF errs # <<>> THEN "done" ELSE "persist"]
  /\ UNCHANGED <<w, writes>>
  /\ UNCHANGED <<body, student, err, lastId, calls, log, students, sqliteSeq>>
  /\ UNCHANGED <<lifeVars, bootVars, testVars, schemaVars, readyW>>

Validate(r) ==
  /\ proc = "running"
  /\ pc[r] = "validate"
  /\ LET errs == Struct(student[r])
     IN  /\ validateErrs' = [validateErrs EXCEPT ![r] = errs]
         /\ IF errs # <<>>
            THEN /\ w' = [w EXCEPT ![r] = WriteJson(w[r], StatusBadRequest, ValidationError(errs))]
                 /\ writes' = [writes EXCEPT ![r] = @ + 1]
                 /\ pc' = [pc EXCEPT ![r] = "done"]
            ELSE /\ pc' = [pc EXCEPT ![r] = "persist"]
                 /\ UNCHANGED <<w, writes>>
  /\ UNCHANGED <<body, student, err, lastId, calls, log, students, sqliteSeq>>
  /\ UNCHANGED <<lifeVars, bootVars, testVars, schemaVars, readyW>>

(* Mutant: the storage call carries the context of Shutdown and does not   *)
(* go through once the deadline has passed.                                *)
CreateStudentCancelledAtDeadline(r) ==
  /\ proc = "running"
  /\ pc[r] = "persist"
  /\ ~deadline
  /\ \E o \in CreateOutcomes :
       LET res == CreateStudentResult(students, sqliteSeq, student[r].Name,
                                      student[r].Email, student[r].Age, r, o[1], o[2])
       IN  /\ lastId' = [lastId EXCEPT ![r] = res.id]
           /\ err' = [err EXCEPT ![r] = res.err]
           /\ students' = res.students
           /\ sqliteSeq' = res.sqliteSeq
  /\ calls' = [calls EXCEPT ![r] = @ + 1]
  /\ pc' = [pc EXCEPT ![r] = "log"]
  /\ UNCHANGED <<body, student, validateErrs, w, writes, log>>
  /\ UNCHANGED <<lifeVars, bootVars, testVars, schemaVars, readyW>>

(* students.go 45-49: lastId, err := storage.CreateStudent(...) *)
CreateStudent(r) ==
  /\ proc = "running"
  /\ pc[r] = "persist"
  /\ \E o \in CreateOutcomes :
       LET res == CreateStudentResult(students, sqliteSeq, student[r].Name,
                                      student[r].Email, student[r].Age, r, o[1], o[2])
       IN  /\ lastId' = [lastId EXCEPT ![r] = res.id]
           /\ err' = [err EXCEPT ![r] = res.err]
           /\ students' = res.students
           /\ sqliteSeq' = res.sqliteSeq
  /\ calls' = [calls EXCEPT ![r] = @ + 1]
  /\ pc' = [pc EXCEPT ![r] = "log"]
  /\ UNCHANGED <<body, student, validateErrs, w, writes, log>>
  /\ UNCHANGED <<lifeVars, bootVars, testVars, schemaVars, readyW>>

(* Mutant: the event is logged only when CreateStudent returned no error. *)
LogCreatedOnlyOnSuccess(r) ==
  /\ proc = "running"
  /\ pc[r] = "log"
  /\ log' = [log EXCEPT ![r] = IF err[r] = NoErr
                                THEN Append(@, [msg |-> "user created", userId |-> Itoa(lastId[r])])
                                ELSE @]
  /\ pc' = [pc EXCEPT ![r] = "check"]
  /\ UNCHANGED <<body, student, err, validateErrs, lastId, w, writes, calls, students, sqliteSeq>>
  /\ UNCHANGED <<lifeVars, bootVars, testVars, schemaVars, readyW>>

(* students.go 50: slog.Info("user created", userId) *)
LogCreated(r) ==
  /\ proc = "running"
  /\ pc[r] = "log"
  /\ log' = [log EXCEPT ![r] = Append(@, [msg |-> "user created", userId |-> Itoa(lastId[r])])]
  /\ pc' = [pc EXCEPT ![r] = "check"]
  /\ UNCHANGED <<body, student, err, validateErrs, lastId, w, writes, calls, students, sqliteSeq>>
  /\ UNCHANGED <<lifeVars, bootVars, testVars, schemaVars, readyW>>

(* Mutant: the storage error is answered as a client error.                *)
RespondErrorAsBadRequest(r) ==
  /\ proc = "running"
  /\ pc[r] = "check"
  /\ IF err[r] # NoErr
     THEN /\ w' = [w EXCEPT ![r] = WriteJson(w[r], StatusBadRequest, ErrorDocument(err[r]))]
          /\ writes' = [writes EXCEPT ![r] = @ + 1]
     ELSE UNCHANGED <<w, writes>>
  /\ pc' = [pc EXCEPT ![r] = "respond"]
  /\ UNCHANGED <<body, student, err, validateErrs, lastId, calls, log, students, sqliteSeq>>
  /\ UNCHANGED <<lifeVars, bootVars, testVars, schemaVars, readyW>>

(* Mutant: a storage error sends the handler back to CreateStudent.        *)
RespondErrorRetry(r) ==
  /\ proc = "running"
  /\ pc[r] = "check"
  /\ pc' = [pc EXCEPT ![r] = IF err[r] # NoErr THEN "persist" ELSE "respond"]
  /\ UNCHANGED <<w, writes>>
  /\ UNCHANGED <<body, student, err, validateErrs, lastId, calls, log, students, sqliteSeq>>
  /\ UNCHANGED <<lifeVars, bootVars, testVars, schemaVars, readyW>>

(* Mutant: the storage-error branch returns after its response.            *)
RespondErrorReturns(r) ==
  /\ proc = "running"
  /\ pc[r] = "check"
  /\ IF err[r] # NoErr
     THEN /\ w' = [w EXCEPT ![r] = WriteJson(w[r], StatusInternalServerError, ErrorDocument(err[r]))]
          /\ writes' = [writes EXCEPT ![r] = @ + 1]
          /\ pc' = [pc EXCEPT ![r] = "done"]
     ELSE /\ pc' = [pc EXCEPT ![r] = "respond"]
          /\ UNCHANGED <<w, writes>>
  /\ UNCHANGED <<body, student, err, validateErrs, lastId, calls, log, students, sqliteSeq>>
  /\ UNCHANGED <<lifeVars, bootVars, testVars, schemaVars, readyW>>

(* students.go 51-53: the branch has no return *)
RespondError(r) ==
  /\ proc = "running"
  /\ pc[r] = "check"
  /\ IF err[r] # NoErr
     THEN /\ w' = [w EXCEPT ![r] = WriteJson(w[r], StatusInternalServerError, ErrorDocument(err[r]))]
          /\ writes' = [writes EXCEPT ![r] = @ + 1]
     ELSE UNCHANGED <<w, writes>>
  /\ pc' = [pc EXCEPT ![r] = "respond"]
  /\ UNCHANGED <<body, student, err, validateErrs, lastId, calls, log, students, sqliteSeq>>
  /\ UNCHANGED <<lifeVars, bootVars, testVars, schemaVars, readyW>>

(* Mutant: the identifier written is the store's latest one, not the one  *)
(* this request's CreateStudent returned.                                  *)
RespondCreatedSharedId(r) ==
  /\ proc = "running"
  /\ pc[r] = "respond"
  /\ w' = [w EXCEPT ![r] = WriteJson(w[r], StatusCreated,
                                     IdDocument(IF err[r] = NoErr THEN sqliteSeq ELSE lastId[r]))]
  /\ writes' = [writes EXCEPT ![r] = @ + 1]
  /\ pc' = [pc EXCEPT ![r] = "done"]
  /\ UNCHANGED <<body, student, err, validateErrs, lastId, calls, log, students, sqliteSeq>>
  /\ UNCHANGED <<lifeVars, bootVars, testVars, schemaVars, readyW>>

(* students.go 54 *)
RespondCreated(r) ==
  /\ proc = "running"
  /\ pc[r] = "respond"
  /\ w' = [w EXCEPT ![r] = WriteJson(w[r], StatusCreated, IdDocument(lastId[r]))]
  /\ writes' = [writes EXCEPT ![r] = @ + 1]
  /\ pc' = [pc EXCEPT ![r] = "done"]
  /\ UNCHANGED <<body, student, err, validateErrs, lastId, calls, log, students, sqliteSeq>>
  /\ UNCHANGED <<lifeVars, bootVars, testVars, schemaVars, readyW>>

(* students.go 17-21: Ready answers w.Write([]byte("welcome to go server")) *)
Welcome == "welcome to go server"

(* Mutant: Ready looks into the store and answers 500 while it is empty.   *)
ReadyPingsStore ==
  /\ proc = "running"
  /\ lisPc = "serving"
  /\ readyW' = IF students = <<>>
                THEN Write(WriteHeader(FreshWriter, StatusInternalServerError), Welcome)
                ELSE Write(FreshWriter, Welcome)
  /\ UNCHANGED <<reqVars, storeVars, lifeVars, bootVars, testVars, schemaVars>>

Ready ==
  /\ proc = "running"
  /\ lisPc = "serving"
  /\ readyW' = Write(FreshWriter, Welcome)
  /\ UNCHANGED <<reqVars, storeVars, lifeVars, bootVars, testVars, schemaVars>>

(* ------------------------------------------------------------------- main *)
ErrBind == "listen tcp: bind: address already in use"
ErrServerClosed == "http: Server closed"
ErrDeadlineExceeded == "context deadline exceeded"

(* signal.Notify(done, ...) has run.                                       *)
Notified == mainPc \notin {"load", "storage", "setup"}

(* Requests whose handler has started and not returned.                    *)
InFlight == {r \in Requests : pc[r] \notin {"idle", "done"}}

(* log.Fatal: the event is logged and the process ends with os.Exit(1).    *)
Fatal(msg) ==
  /\ mainLog' = Append(mainLog, msg)
  /\ proc' = "fatal"

(* The three log.Fatal exits of config.MustLoad.                           *)
ConfigFailures ==
  {"Config path is not set", "config file does not exists", "can not read config file"}

(* Mutant: MustLoad returns a nil config instead of ending the process.   *)
MustLoadReturnsAnyway ==
  /\ proc = "running"
  /\ mainPc = "load"
  /\ \/ /\ mainPc' = "storage"
        /\ cfg' = "loaded"
     \/ /\ mainPc' = "storage"
        /\ cfg' = ""
  /\ UNCHANGED <<proc, mainLog, storage>>
  /\ UNCHANGED <<lisPc, done, sigSent, inShutdown, deadline, shutdownErr, listenErr, listenCalls>>
  /\ UNCHANGED <<reqVars, storeVars, testVars, schemaVars, readyW>>

(* cfg := config.MustLoad() *)
MustLoad ==
  /\ proc = "running"
  /\ mainPc = "load"
  /\ \/ /\ mainPc' = "storage"
        /\ cfg' = "loaded"
        /\ UNCHANGED <<proc, mainLog>>
     \/ /\ \E msg \in ConfigFailures : Fatal(msg)
        /\ UNCHANGED <<mainPc, cfg>>
  /\ UNCHANGED storage
  /\ UNCHANGED <<lisPc, done, sigSent, inShutdown, deadline, shutdownErr, listenErr, listenCalls>>
  /\ UNCHANGED <<reqVars, storeVars, testVars, schemaVars, readyW>>

(* CREATE TABLE IF NOT EXISTS: a table that is there stays as it is.       *)
CreateTableIfNotExists(sch) == IF sch = <<>> THEN StudentsColumns ELSE sch

(* The two error returns of sqlite.New.                                    *)
NewErrors == {"sql.Open", "CREATE TABLE"}

(* Mutant: the constructor drops the table and creates it again.           *)
NewRecreatesTable ==
  /\ proc = "running"
  /\ mainPc = "storage"
  /\ \/ /\ mainPc' = "setup"
        /\ storage' = "open"
        /\ schema' = StudentsColumns
        /\ schemaInits' = schemaInits + 1
        /\ students' = <<>>
        /\ sqliteSeq' = 0
        /\ mainLog' = Append(mainLog, "storage init")
        /\ UNCHANGED proc
     \/ /\ \E e \in NewErrors : Fatal(e)
        /\ UNCHANGED <<mainPc, storage, schemaVars, storeVars>>
  /\ UNCHANGED cfg
  /\ UNCHANGED <<lisPc, done, sigSent, inShutdown, deadline, shutdownErr, listenErr, listenCalls>>
  /\ UNCHANGED <<reqVars, testVars, readyW>>

(* storage, dbErr := sqlite.New(cfg); log.Fatal(dbErr) on error.  CREATE   *)
(* TABLE IF NOT EXISTS leaves the rows of an existing table as they are.   *)
New ==
  /\ proc = "running"
  /\ mainPc = "storage"
  /\ \/ /\ mainPc' = "setup"
        /\ storage' = "open"
        /\ schema' = CreateTableIfNotExists(schema)
        /\ schemaInits' = schemaInits + 1
        /\ mainLog' = Append(mainLog, "storage init")
        /\ UNCHANGED proc
     \/ /\ \E e \in NewErrors : Fatal(e)
        /\ UNCHANGED <<mainPc, storage, schemaVars>>
  /\ UNCHANGED cfg
  /\ UNCHANGED <<lisPc, done, sigSent, inShutdown, deadline, shutdownErr, listenErr, listenCalls>>
  /\ UNCHANGED <<reqVars, storeVars, testVars, readyW>>

(* router, server, "server started", done := make(chan os.Signal, 1),      *)
(* signal.Notify(done, ...)                                                *)
Setup ==
  /\ proc = "running"
  /\ mainPc = "setup"
  /\ mainPc' = "go"
  /\ mainLog' = Append(mainLog, "server started")
  /\ UNCHANGED <<lisPc, proc, done, sigSent, inShutdown, deadline, shutdownErr, listenErr, listenCalls>>
  /\ UNCHANGED <<reqVars, storeVars, bootVars, testVars, schemaVars, readyW>>

(* go func() { ... }() *)
Go ==
  /\ proc = "running"
  /\ mainPc = "go"
  /\ mainPc' = "wait"
  /\ lisPc' = "start"
  /\ UNCHANGED <<proc, done, sigSent, inShutdown, deadline, shutdownErr, listenErr, listenCalls, mainLog>>
  /\ UNCHANGED <<reqVars, storeVars, bootVars, testVars, schemaVars, readyW>>

(* The OS sends SIGINT or SIGTERM.  Once Notify has run the signal goes    *)
(* to channel done without blocking (it is dropped when the one slot is    *)
(* taken); before that the default action ends the process.                *)
(* Mutant: once main has taken a signal the default disposition is back,   *)
(* and the next signal ends the process.                                   *)
SignalSecondKills ==
  /\ proc = "running"
  /\ sigSent < MaxSignals
  /\ sigSent' = sigSent + 1
  /\ IF Notified /\ mainPc \in {"go", "wait"}
     THEN /\ done' = IF done < 1 THEN done + 1 ELSE done
          /\ UNCHANGED proc
     ELSE /\ proc' = "killed"
          /\ UNCHANGED done
  /\ UNCHANGED <<mainPc, lisPc, inShutdown, deadline, shutdownErr, listenErr, listenCalls, mainLog>>
  /\ UNCHANGED <<reqVars, storeVars, bootVars, testVars, schemaVars, readyW>>

Signal ==
  /\ proc = "running"
  /\ sigSent < MaxSignals
  /\ sigSent' = sigSent + 1
  /\ IF Notified
     THEN /\ done' = IF done < 1 THEN done + 1 ELSE done
          /\ UNCHANGED proc
     ELSE /\ proc' = "killed"
          /\ UNCHANGED done
  /\ UNCHANGED <<mainPc, lisPc, inShutdown, deadline, shutdownErr, listenErr, listenCalls, mainLog>>
  /\ UNCHANGED <<reqVars, storeVars, bootVars, testVars, schemaVars, readyW>>

(* Mutant: ListenAndServe binds without looking at inShutdown.             *)
ListenAndServeNoShutdownCheck ==
  /\ proc = "running"
  /\ lisPc = "start"
  /\ listenCalls' = listenCalls + 1
  /\ \/ /\ lisPc' = "serving"
        /\ UNCHANGED <<listenErr, proc, mainLog>>
     \/ /\ listenErr' = ErrBind
        /\ lisPc' = "returned"
        /\ Fatal("failed to start server")
  /\ UNCHANGED <<mainPc, done, sigSent, inShutdown, deadline, shutdownErr>>
  /\ UNCHANGED <<reqVars, storeVars, bootVars, testVars, schemaVars, readyW>>

(* Mutant: a failed bind is tried again.                                   *)
ListenAndServeRetry ==
  /\ proc = "running"
  /\ lisPc = "start"
  /\ listenCalls' = listenCalls + 1
  /\ IF inShutdown
     THEN /\ listenErr' = ErrServerClosed
          /\ lisPc' = "returned"
          /\ Fatal("failed to start server")
     ELSE \/ /\ lisPc' = "serving"
             /\ UNCHANGED <<listenErr, proc, mainLog>>
          \/ /\ listenErr' = ErrBind
             /\ UNCHANGED <<lisPc, proc, mainLog>>
  /\ UNCHANGED <<mainPc, done, sigSent, inShutdown, deadline, shutdownErr>>
  /\ UNCHANGED <<reqVars, storeVars, bootVars, testVars, schemaVars, readyW>>

(* err := server.ListenAndServe(), up to the point where the listener      *)
(* accepts.  A server already shut down returns ErrServerClosed at once, a *)
(* failed bind returns its error; both reach log.Fatal since err != nil.   *)
ListenAndServe ==
  /\ proc = "running"
  /\ lisPc = "start"
  /\ listenCalls' = listenCalls + 1
  /\ IF inShutdown
     THEN /\ listenErr' = ErrServerClosed
          /\ lisPc' = "returned"
          /\ Fatal("failed to start server")
     ELSE \/ /\ lisPc' = "serving"
             /\ UNCHANGED <<listenErr, proc, mainLog>>
          \/ /\ listenErr' = ErrBind
             /\ lisPc' = "returned"
             /\ Fatal("failed to start server")
  /\ UNCHANGED <<mainPc, done, sigSent, inShutdown, deadline, shutdownErr>>
  /\ UNCHANGED <<reqVars, storeVars, bootVars, testVars, schemaVars, readyW>>

(* ListenAndServe returns after Shutdown closed the listener: the error is *)
(* http.ErrServerClosed, which is not nil, so log.Fatal runs.              *)
ServeReturns ==
  /\ proc = "running"
  /\ lisPc = "closed"
  /\ listenErr' = ErrServerClosed
  /\ lisPc' = "returned"
  /\ Fatal("failed to start server")
  /\ UNCHANGED <<mainPc, done, sigSent, inShutdown, deadline, shutdownErr, listenCalls>>
  /\ UNCHANGED <<reqVars, storeVars, bootVars, testVars, schemaVars, readyW>>

(* Mutant: main does not block on the channel.                             *)
WaitDoneNoBlock ==
  /\ proc = "running"
  /\ mainPc = "wait"
  /\ done' = IF done > 0 THEN done - 1 ELSE done
  /\ mainPc' = "shutdown"
  /\ mainLog' = Append(mainLog, "shutting down the server...")
  /\ UNCHANGED <<lisPc, proc, sigSent, inShutdown, deadline, shutdownErr, listenErr, listenCalls>>
  /\ UNCHANGED <<reqVars, storeVars, bootVars, testVars, schemaVars, readyW>>

(* <-done; "shutting down the server..."; context.WithTimeout(5s) *)
WaitDone ==
  /\ proc = "running"
  /\ mainPc = "wait"
  /\ done > 0
  /\ done' = done - 1
  /\ mainPc' = "shutdown"
  /\ mainLog' = Append(mainLog, "shutting down the server...")
  /\ UNCHANGED <<lisPc, proc, sigSent, inShutdown, deadline, shutdownErr, listenErr, listenCalls>>
  /\ UNCHANGED <<reqVars, storeVars, bootVars, testVars, schemaVars, readyW>>

(* server.Shutdown(ctx), first part: inShutdown is set and the listener is *)
(* closed.                                                                 *)
BeginShutdown ==
  /\ proc = "running"
  /\ mainPc = "shutdown"
  /\ inShutdown' = TRUE
  /\ lisPc' = IF lisPc = "serving" THEN "closed" ELSE lisPc
  /\ mainPc' = "draining"
  /\ UNCHANGED <<proc, done, sigSent, deadline, shutdownErr, listenErr, listenCalls, mainLog>>
  /\ UNCHANGED <<reqVars, storeVars, bootVars, testVars, schemaVars, readyW>>

(* The 5 seconds of the context pass.                                      *)
DeadlineElapses ==
  /\ proc = "running"
  /\ mainPc \in {"shutdown", "draining"}
  /\ ~deadline
  /\ deadline' = TRUE
  /\ UNCHANGED <<mainPc, lisPc, proc, done, sigSent, inShutdown, shutdownErr, listenErr, listenCalls, mainLog>>
  /\ UNCHANGED <<reqVars, storeVars, bootVars, testVars, schemaVars, readyW>>

(* Mutant: Shutdown ignores its context and waits for every request.       *)
ShutdownWaitsForAll ==
  /\ proc = "running"
  /\ mainPc = "draining"
  /\ InFlight = {}
  /\ shutdownErr' = NoErr
  /\ mainPc' = "after"
  /\ UNCHANGED <<lisPc, proc, done, sigSent, inShutdown, deadline, listenErr, listenCalls, mainLog>>
  /\ UNCHANGED <<reqVars, storeVars, bootVars, testVars, schemaVars, readyW>>

(* server.Shutdown(ctx) returns: nil when no request is in flight,         *)
(* ctx.Err() when the context has expired.                                 *)
ShutdownReturns ==
  /\ proc = "running"
  /\ mainPc = "draining"
  /\ \/ /\ InFlight = {}
        /\ shutdownErr' = NoErr
     \/ /\ deadline
        /\ shutdownErr' = ErrDeadlineExceeded
  /\ mainPc' = "after"
  /\ UNCHANGED <<lisPc, proc, done, sigSent, inShutdown, deadline, listenErr, listenCalls, mainLog>>
  /\ UNCHANGED <<reqVars, storeVars, bootVars, testVars, schemaVars, readyW>>

(* if err != nil { slog.Error(...) }; slog.Info(...); main returns.        *)
Return ==
  /\ proc = "running"
  /\ mainPc = "after"
  /\ mainLog' = (IF shutdownErr # NoErr
                 THEN Append(mainLog, "failed to shut down server")
                 ELSE mainLog) \o <<"Server shutdoen successfully">>
  /\ mainPc' = "returned"
  /\ proc' = "exited"
  /\ UNCHANGED <<lisPc, done, sigSent, inShutdown, deadline, shutdownErr, listenErr, listenCalls>>
  /\ UNCHANGED <<reqVars, storeVars, bootVars, testVars, schemaVars, readyW>>

Main ==
  \/ MustLoad
  \/ New
  \/ Setup
  \/ Go
  \/ WaitDone
  \/ BeginShutdown
  \/ ShutdownReturns
  \/ Return

Handler(r, B) ==
  \/ Accept(r, B)
  \/ Decode(r)
  \/ Validate(r)
  \/ CreateStudent(r)
  \/ LogCreated(r)
  \/ RespondError(r)
  \/ RespondCreated(r)

(* The whole program: main, the listener goroutine, the signals, the       *)
(* deadline of Shutdown and up to MaxInFlight requests.                    *)
NextL ==
  \/ Main
  \/ Signal
  \/ ListenAndServe
  \/ ServeReturns
  \/ DeadlineElapses
  \/ Ready
  \/ \E r \in 1..MaxInFlight : Handler(r, LifeBodies)

SpecL == Init /\ [][NextL]_vars

(* The scheduler runs main and the listener goroutine whenever they can    *)
(* take a step and the timer of the context fires; a handler may block     *)
(* for ever in its storage call and the OS need not send a signal.         *)
Fairness ==
  /\ WF_vars(Main)
  /\ WF_vars(ListenAndServe)
  /\ WF_vars(DeadlineElapses)

SpecLive == SpecL /\ Fairness

(* The server while it serves and no signal is sent: MaxRequests           *)
(* concurrent requests with the bodies of Bodies.                          *)
Next ==
  \/ MustLoad
  \/ New
  \/ Setup
  \/ Go
  \/ ListenAndServe
  \/ \E r \in Requests : Handler(r, Bodies)

Spec == Init /\ [][Next]_vars

(* TestWriteJson: err := response.WriteJson(rr, tc.status, tc.data)        *)
TestWriteJson ==
  /\ ~tc.ran
  /\ rr' = WriteJson(rr, tc.status, tc.data)
  /\ tc' = [tc EXCEPT !.err = WriteJsonError(rr, tc.status, tc.data), !.ran = TRUE]
  /\ UNCHANGED <<reqVars, storeVars, lifeVars, bootVars, schemaVars, readyW>>

NextW == TestWriteJson
SpecW == InitW /\ [][NextW]_vars

(* One request with a body drawn from every combination of member values:  *)
(* the specification for the claims about decoding and validation.         *)
NextV ==
  \/ MustLoad
  \/ New
  \/ Setup
  \/ Go
  \/ ListenAndServe
  \/ Handler(1, AllBodies)

SpecV == Init /\ [][NextV]_vars

(* ================================================================ claims *)
(* The field constraints of the resource record, as the specification     *)
(* states them.                                                            *)
Offending(field, st) ==
  CASE field = "Name" -> st.Name = ""
    [] field = "Email" -> st.Email = <<>> \/ ~IsEmail(st.Email)
    [] field = "Age" -> st.Age < AgeMin \/ st.Age > AgeMax

RecordFields == {"Name", "Email", "Age"}
OffendingFields(st) == {f \in RecordFields : Offending(f, st)}
ValidPayload(st) == OffendingFields(st) = {}

Decodes(r) == pc[r] # "idle" /\ DecodeErr(body[r]) = NoErr
Payload(r) == DecodeStudent(body[r])

RowsBy(r) == {i \in 1..Len(students) : students[i].by = r}
StorageFailed(r) == calls[r] >= 1 /\ pc[r] # "persist" /\ err[r] # NoErr
StorageSucceeded(r) == calls[r] >= 1 /\ pc[r] # "persist" /\ err[r] = NoErr
IdDocuments(r) == {i \in 1..Len(w[r].Body) : w[r].Body[i].kind = "id"}
Count(s, x) == Cardinality({i \in 1..Len(s) : s[i] = x})

(* C1: on every path the handler makes exactly one WriteJson call and no   *)
(* step runs after a response has been emitted.                            *)
C1_ExactlyOneResponseWrite ==
  \A r \in Requests :
    /\ writes[r] <= 1
    /\ writes[r] >= 1 => pc[r] = "done"
    /\ pc[r] = "done" => writes[r] = 1

(* C2: a payload that decodes and validates and whose CreateStudent call   *)
(* returns an error is answered with status 500, never 201 or 400.         *)
C2_StorageErrorIs500 ==
  \A r \in Requests :
    (StorageFailed(r) /\ Decodes(r) /\ ValidPayload(Payload(r))) =>
      /\ w[r].wroteHeader => w[r].Code = StatusInternalServerError
      /\ pc[r] = "done" => w[r].wroteHeader

C2_Witness ==
  \E r \in Requests :
    /\ pc[r] = "done"
    /\ StorageFailed(r)
    /\ w[r].Code = StatusInternalServerError
    /\ writes[r] = 2

C4_IdOnlyOnSuccess ==
  \A r \in Requests :
    \A i \in IdDocuments(r) :
      /\ StorageSucceeded(r)
      /\ Atoi(w[r].Body[i].id) = lastId[r]

(* C5: a valid payload on a store that succeeds persists exactly one       *)
(* record, the record is in the store when the response is written, and    *)
(* the response is 201 with that record's identifier.                      *)
C5_ValidPayloadCreatesOne ==
  \A r \in Requests :
    ((pc[r] = "done" \/ StorageSucceeded(r)) /\ Decodes(r) /\ ValidPayload(Payload(r))) =>
      /\ pc[r] = "done" => calls[r] = 1 /\ w[r].wroteHeader
      /\ StorageSucceeded(r) =>
           /\ Cardinality(RowsBy(r)) = 1
           /\ \A i \in RowsBy(r) :
                /\ students[i].name = Payload(r).Name
                /\ students[i].email = Payload(r).Email
                /\ students[i].age = Payload(r).Age
                /\ w[r].wroteHeader =>
                     /\ w[r].Code = StatusCreated
                     /\ Len(w[r].Body) = 1
                     /\ w[r].Body[1].kind = "id"
                     /\ Atoi(w[r].Body[1].id) = students[i].id

C5_Witness ==
  \E r \in Requests :
    /\ pc[r] = "done"
    /\ ValidPayload(Payload(r))
    /\ StorageSucceeded(r)
    /\ w[r].Code = StatusCreated
    /\ \E i \in RowsBy(r) : w[r].Body = <<IdDocument(students[i].id)>>

(* C6: two requests with the same valid payload create two records with    *)
(* two identifiers; on a fresh store the k-th insert gets identifier k.    *)
FreshStore == \A i \in 1..Len(students) : students[i].by # 0

C6_NotIdempotent ==
  /\ \A r1, r2 \in Requests :
       (r1 # r2 /\ StorageSucceeded(r1) /\ StorageSucceeded(r2)
          /\ student[r1] = student[r2]) =>
         /\ lastId[r1] # lastId[r2]
         /\ \E i \in RowsBy(r1) : students[i].id = lastId[r1]
         /\ \E j \in RowsBy(r2) : students[j].id = lastId[r2]
  /\ FreshStore => \A i \in 1..Len(students) : students[i].id = i

C6_Witness ==
  \E r1, r2 \in Requests :
    /\ r1 # r2
    /\ pc[r1] = "done" /\ pc[r2] = "done"
    /\ student[r1] = student[r2]
    /\ FreshStore
    /\ w[r1].Body = <<IdDocument(1)>>
    /\ w[r2].Body = <<IdDocument(2)>>
    /\ Len(students) = 2

(* C7: every record in the store satisfies the three field constraints,    *)
(* and CreateStudent is never called with a payload that violates one.     *)
C7_StoredRecordsValid ==
  /\ \A i \in 1..Len(students) :
       ValidPayload(Student(students[i].name, students[i].email, students[i].age))
  /\ \A r \in Requests : (pc[r] = "persist" \/ calls[r] >= 1) => ValidPayload(student[r])

C7_Witness ==
  \E r \in Requests : RowsBy(r) # {} /\ student[r].Age = AgeMax

(* C8: a decoded payload with an offending field is answered 400, with     *)
(* one violation for each offending field and none for any other field.    *)
C8_AllViolationsReported ==
  \A r \in Requests :
    (Decodes(r) /\ pc[r] = "done" /\ ~ValidPayload(Payload(r))) =>
      /\ w[r].Code = StatusBadRequest
      /\ calls[r] = 0
      /\ Len(w[r].Body) = 1
      /\ \A f \in RecordFields :
           /\ Cardinality({i \in 1..Len(validateErrs[r]) : validateErrs[r][i].Field = f})
                = IF Offending(f, Payload(r)) THEN 1 ELSE 0
           /\ Count(w[r].Body[1].Error, f) = IF Offending(f, Payload(r)) THEN 1 ELSE 0

C8_Witness ==
  \E r \in Requests :
    /\ pc[r] = "done"
    /\ Decodes(r)
    /\ OffendingFields(Payload(r)) = RecordFields
    /\ Len(validateErrs[r]) = 3
    /\ w[r].Code = StatusBadRequest

(* C9: name is violated iff it is empty, email iff it is empty or fails    *)
(* the syntax check, age iff it is outside [1,100].                        *)
Validated(r) == Decodes(r) /\ pc[r] \notin {"decode", "validate"}
Violated(r) == {validateErrs[r][i].Field : i \in 1..Len(validateErrs[r])}

C9_RulesExact ==
  \A r \in Requests :
    Validated(r) =>
      /\ "Name" \in Violated(r) <=> student[r].Name = ""
      /\ "Email" \in Violated(r) <=> (student[r].Email = <<>> \/ ~IsEmail(student[r].Email))
      /\ "Age" \in Violated(r) <=> ~(student[r].Age \in AgeMin..AgeMax)

C9_Witness ==
  \E r \in Requests :
    /\ Validated(r)
    /\ student[r].Age < 0
    /\ student[r].Name # ""
    /\ IsEmail(student[r].Email)
    /\ Violated(r) = {"Age"}

(* C10: each violation names its field and a reason that tells the kinds   *)
(* of failure apart: required, out of range, invalid format.               *)
KindOf(tag) ==
  CASE tag = "required" -> "required"
    [] tag \in {"gte", "lte"} -> "out of range"
    [] OTHER -> "invalid format"

(* The i-th message of the joined violation list: field and reason.        *)
ReportedField(doc, i) == doc.Error[4 * (i - 1) + 2]
ReportedReason(doc, i) == doc.Error[4 * (i - 1) + 3]

C10_ReasonsTellKindsApart ==
  \A r \in Requests :
    (pc[r] = "done" /\ validateErrs[r] # <<>>) =>
      \A i, j \in 1..Len(validateErrs[r]) :
        /\ ReportedField(w[r].Body[1], i) = validateErrs[r][i].Field
        /\ KindOf(validateErrs[r][i].ActualTag) # KindOf(validateErrs[r][j].ActualTag)
             => ReportedReason(w[r].Body[1], i) # ReportedReason(w[r].Body[1], j)

(* C11: a request whose body is empty or malformed gets one 400 response   *)
(* with the general-error body and stops there: the validator is not run,  *)
(* CreateStudent is not called and the status is not 500.                  *)
DecodeFails(r) == pc[r] \notin {"idle", "decode"} /\ DecodeErr(body[r]) # NoErr

C11_DecodeFailureIs400 ==
  \A r \in Requests :
    DecodeFails(r) =>
      /\ pc[r] = "done"
      /\ w[r].Code = StatusBadRequest
      /\ w[r].Code # StatusInternalServerError
      /\ w[r].ContentType = ContentTypeJson
      /\ w[r].Body = <<[kind |-> "Response", Status |-> "Error",
                        Error |-> <<DecodeErr(body[r])>>, id |-> <<>>]>>
      /\ writes[r] = 1
      /\ validateErrs[r] = <<>>
      /\ calls[r] = 0
      /\ RowsBy(r) = {}

C11_Witness ==
  \E r \in Requests :
    /\ pc[r] = "done"
    /\ body[r].kind = "malformed"
    /\ w[r].Code = StatusBadRequest
    /\ w[r].Body[1].Error = <<ErrSyntax>>

(* ------------------------------------------------- lifecycle coordinator *)
(* The state of the coordinator, read from the program's state.            *)
Stopped == proc # "running"
Serving == proc = "running" /\ lisPc = "serving"
Draining == proc = "running" /\ lisPc # "serving" /\ inShutdown
Starting == proc = "running" /\ lisPc # "serving" /\ ~inShutdown

Rank ==
  CASE Stopped -> 3
    [] Draining -> 2
    [] Serving -> 1
    [] OTHER -> 0

(* main has taken a signal from channel done.                              *)
SignalReceived == mainPc \in {"shutdown", "draining", "after", "returned"}

(* C12: when a signal arrived while a request was in flight, the process   *)
(* does not exit before the deadline unless that request's handler has     *)
(* returned.                                                               *)
C12_NoExitWithRequestInFlight ==
  (Stopped /\ SignalReceived /\ ~deadline) => InFlight = {}

(* C13: the listener goroutine ends the process ('failed to start server') *)
(* only when ListenAndServe failed to bind, never on http.ErrServerClosed. *)
ListenerFatal == proc = "fatal" /\ lisPc = "returned"

C13_FatalOnlyOnBindFailure ==
  ListenerFatal => (listenErr = ErrBind /\ ~inShutdown)

(* C14: when the deadline has elapsed with requests in flight the process  *)
(* stops by main returning, after the shutdown failure was logged, and not *)
(* by a fatal error.                                                       *)
Logged(msg) == \E i \in 1..Len(mainLog) : mainLog[i] = msg

C14_ForcedStopIsLoggedNotFatal ==
  (Stopped /\ deadline /\ InFlight # {}) =>
    /\ proc = "exited"
    /\ Logged("failed to shut down server")

C16_DrainBetweenSignalAndExit ==
  /\ inShutdown => (sigSent >= 1 /\ SignalReceived)
  /\ Stopped => mainPc # "draining"

(* C17: the lifecycle state only moves forward along Starting, Serving,    *)
(* Draining, Stopped; nothing moves once Stopped and ListenAndServe is not *)
(* called a second time.                                                   *)
C17_LifecycleForwardOnly ==
  /\ [][Rank' >= Rank /\ ~Stopped]_vars
  /\ [](listenCalls <= 1)

C17_Witness ==
  /\ proc = "exited"
  /\ lisPc = "closed"
  /\ listenCalls = 1

AnyAccepted == \E r \in Requests : pc[r] # "idle"

C21_StartupOrderedFailFast ==
  /\ (lisPc # "none" \/ listenCalls > 0 \/ AnyAccepted) =>
       (cfg = "loaded" /\ storage = "open")
  /\ storage = "open" => cfg = "loaded"
  /\ (mainPc \in {"load", "storage"} /\ proc # "running") =>
       /\ lisPc = "none"
       /\ listenCalls = 0
       /\ ~AnyAccepted
  /\ (cfg = "" /\ mainPc # "load") => proc = "fatal"
  /\ (storage = "" /\ mainPc \notin {"load", "storage"}) => proc = "fatal"

C21_Witness ==
  /\ proc = "fatal"
  /\ mainPc = "storage"
  /\ cfg = "loaded"
  /\ storage = ""
  /\ lisPc = "none"

(* C22: main takes a signal from channel done at most once, at <-done;     *)
(* a signal that arrives after that changes nothing but the channel and    *)
(* the count of signals sent, the drain still ends only with no request    *)
(* in flight or at the deadline, and a signal can always be delivered.     *)
C22_OneSignalConsumed ==
  /\ [](Count(mainLog, "shutting down the server...") <= 1)
  /\ [][done' < done =>
          (mainPc = "wait" /\ mainPc' = "shutdown" /\ done' = done - 1)]_vars
  /\ [][(SignalReceived /\ sigSent' > sigSent) =>
          /\ UNCHANGED <<mainPc, lisPc, proc, inShutdown, deadline, shutdownErr>>
          /\ UNCHANGED <<reqVars, storeVars>>
          /\ done' <= 1]_vars
  /\ [][(mainPc = "draining" /\ mainPc' # "draining") => (InFlight = {} \/ deadline)]_vars
  /\ []((proc = "running" /\ sigSent < MaxSignals) => ENABLED Signal)

C22_Witness ==
  /\ mainPc = "draining"
  /\ proc = "running"
  /\ sigSent >= 2
  /\ done = 1
  /\ InFlight # {}
  /\ ~deadline

(* C23: a handler that has returned has written a response: the header is  *)
(* out with one of the handler's status codes and the body is not empty.   *)
C23_CompletedHandlerWroteResponse ==
  \A r \in Requests :
    pc[r] = "done" =>
      /\ writes[r] >= 1
      /\ w[r].wroteHeader
      /\ w[r].Code \in {StatusBadRequest, StatusInternalServerError, StatusCreated}
      /\ w[r].Body # <<>>

C23_Witness ==
  \E r \in Requests :
    /\ pc[r] = "done"
    /\ validateErrs[r] # <<>>
    /\ w[r].Code = StatusBadRequest
    /\ w[r].Body # <<>>

(* C24: the identifiers in table students increase strictly in insertion   *)
(* order, an insert takes an identifier above every one handed out before, *)
(* and two requests never get the same identifier back.                    *)
C24_IdsDistinctIncreasing ==
  /\ [](\A i, j \in 1..Len(students) : i < j => students[i].id < students[j].id)
  /\ [](\A i \in 1..Len(students) : students[i].id <= sqliteSeq)
  /\ [][\A i \in (Len(students) + 1)..Len(students') : students'[i].id > sqliteSeq]_vars
  /\ [](\A r1, r2 \in Requests :
          (r1 # r2 /\ StorageSucceeded(r1) /\ StorageSucceeded(r2)) => lastId[r1] # lastId[r2])

C24_Witness ==
  \E r1, r2 \in Requests :
    /\ r1 # r2
    /\ StorageSucceeded(r1)
    /\ StorageSucceeded(r2)
    /\ lastId[r1] < lastId[r2]
    /\ Len(students) >= 2

(* C25: CreateStudent is never called twice for a request; a handler that  *)
(* has returned called it once when the body decoded and validated, and    *)
(* not at all otherwise.                                                   *)
C25_StorageCalledOncePerValidRequest ==
  \A r \in Requests :
    /\ calls[r] <= 1
    /\ pc[r] \in {"decode", "validate"} => calls[r] = 0
    /\ pc[r] = "done" =>
         calls[r] = IF Decodes(r) /\ ValidPayload(Payload(r)) THEN 1 ELSE 0

C25_Witness ==
  \E r \in Requests :
    /\ pc[r] = "done"
    /\ StorageFailed(r)
    /\ calls[r] = 1

(* C26: two requests whose CreateStudent failed have the same response     *)
(* body, whatever the two errors were.                                     *)
C26_GenericServerErrorBody ==
  \A r1, r2 \in Requests :
    (pc[r1] = "done" /\ pc[r2] = "done" /\ StorageFailed(r1) /\ StorageFailed(r2)) =>
      w[r1].Body = w[r2].Body

(* C27: after WriteJson on a fresh writer the status sent is the one       *)
(* given and the Content-Type sent is application/json, whether or not     *)
(* the payload could be encoded.                                           *)
C27_HeaderAndStatusAlwaysSet ==
  tc.ran =>
    /\ rr.wroteHeader
    /\ rr.Code = tc.status
    /\ rr.ContentType = ContentTypeJson

C27_Witness ==
  /\ tc.ran
  /\ tc.err = NoErr
  /\ rr.Body = <<tc.data>>
  /\ rr.Code = StatusCreated
  /\ rr.ContentType = ContentTypeJson

(* C28: WriteJson of a payload that cannot be encoded returns an error,    *)
(* writes no body, and the status and Content-Type it sent stay.           *)
C28_EncodeFailureKeepsHeader ==
  (tc.ran /\ ~Encodable(tc.data)) =>
    /\ tc.err # NoErr
    /\ rr.Body = <<>>
    /\ rr.wroteHeader
    /\ rr.Code = tc.status
    /\ rr.ContentType = ContentTypeJson

C28_Witness ==
  /\ tc.ran
  /\ tc.data = Chan
  /\ tc.err = ErrUnsupportedType
  /\ rr.Body = <<>>
  /\ rr.Code = StatusInternalServerError

ResponseId(r) == Atoi(w[r].Body[Len(w[r].Body)].id)
Created(r) == pc[r] = "done" /\ StorageSucceeded(r)

OwnStatus(r) ==
  IF DecodeErr(body[r]) # NoErr THEN StatusBadRequest
  ELSE IF ~ValidPayload(Payload(r)) THEN StatusBadRequest
  ELSE IF err[r] # NoErr THEN StatusInternalServerError
  ELSE StatusCreated

ReadyAnswered == readyW.wroteHeader

C31_ReadyFixedAnswer ==
  /\ [](ReadyAnswered =>
          /\ readyW.Code = StatusOK
          /\ readyW.Body = <<Welcome>>)
  /\ [][readyW' # readyW =>
          /\ UNCHANGED <<students, sqliteSeq, schema, schemaInits>>
          /\ UNCHANGED <<reqVars, lifeVars>>
          /\ readyW'.Body = <<Welcome>>]_vars

C31_Witness ==
  /\ ReadyAnswered
  /\ readyW.Code = StatusOK
  /\ readyW.Body = <<Welcome>>
  /\ \E i \in 1..Len(students) : students[i].by # 0

(* C32: CREATE TABLE runs at most once, only in the step of main that      *)
(* constructs the store, it keeps the rows and the columns of a table that *)
(* exists, and after it no step changes the columns.                       *)
C32_SchemaInitOnceInConstructor ==
  /\ [](schemaInits <= 1)
  /\ [](storage = "open" => (schemaInits = 1 /\ schema = StudentsColumns))
  /\ [][schemaInits' # schemaInits =>
          /\ mainPc = "storage"
          /\ mainPc' = "setup"
          /\ students' = students
          /\ sqliteSeq' = sqliteSeq
          /\ (schema # <<>> => schema' = schema)]_vars
  /\ [][schema' # schema => (mainPc = "storage" /\ schema = <<>>)]_vars
  /\ [][(\E r \in Requests : calls'[r] # calls[r]) => UNCHANGED schemaVars]_vars

C32_Witness ==
  /\ schemaInits = 1
  /\ storage = "open"
  /\ \E i \in 1..Len(students) : students[i].by = 0
  /\ \E r \in Requests : RowsBy(r) # {}

(* C33: no step of main, of Shutdown or of the deadline changes a          *)
(* request's handler; while the process runs a handler can take its next   *)
(* step, the storage call included, also after the deadline has passed;    *)
(* and a handler moves only while the process runs.                        *)
C33_DeadlineCancelsNoRequest ==
  /\ [][(mainPc' # mainPc \/ deadline' # deadline \/ inShutdown' # inShutdown
           \/ lisPc' # lisPc \/ done' # done) => UNCHANGED reqVars]_vars
  /\ [](\A r \in 1..MaxInFlight :
          proc = "running" =>
            /\ pc[r] = "decode" => ENABLED Decode(r)
            /\ pc[r] = "validate" => ENABLED Validate(r)
            /\ pc[r] = "persist" => ENABLED CreateStudent(r)
            /\ pc[r] = "log" => ENABLED LogCreated(r)
            /\ pc[r] = "check" => ENABLED RespondError(r)
            /\ pc[r] = "respond" => ENABLED RespondCreated(r))
  /\ [][pc' # pc => (proc = "running" /\ proc' = "running")]_vars

C33_Witness ==
  /\ proc = "running"
  /\ deadline
  /\ mainPc = "after"
  /\ shutdownErr = ErrDeadlineExceeded
  /\ \E r \in 1..MaxInFlight : pc[r] = "persist" /\ ENABLED CreateStudent(r)

(* C34: a handler step at decode or validation changes nothing of main,    *)
(* the listener, the process or the store, and a request whose body does   *)
(* not decode or validate ends with status 400, no storage call, and the   *)
(* process serving as before.                                              *)
Rejected(r) ==
  /\ pc[r] = "done"
  /\ (DecodeErr(body[r]) # NoErr \/ ~ValidPayload(Payload(r)))

C34_RejectionStaysInHandler ==
  /\ [](\A r \in Requests :
          Rejected(r) =>
            /\ w[r].Code = StatusBadRequest
            /\ writes[r] = 1
            /\ calls[r] = 0
            /\ Serving)
  /\ [][\A r \in Requests :
          (pc[r] \in {"decode", "validate"} /\ pc'[r] # pc[r]) =>
            /\ UNCHANGED lifeVars
            /\ UNCHANGED <<storeVars, schemaVars>>
            /\ pc'[r] \in {"validate", "persist", "done"}]_vars
  /\ [](\A r \in Requests : (proc # "running" /\ pc[r] # "idle") => pc[r] \notin {"decode", "validate"})

C34_Witness ==
  /\ Rejected(1)
  /\ DecodeErr(body[1]) = ErrUnmarshalType
  /\ w[1].Code = StatusBadRequest
  /\ Serving

(* C35: after a failed CreateStudent the handler writes the 500 response   *)
(* and goes on to the statement that writes the 201 response: when it has  *)
(* returned it has called WriteJson twice and the body holds the error     *)
(* document followed by the id document.                                   *)
C35_ErrorPathFallsThrough ==
  /\ [](\A r \in Requests :
          StorageFailed(r) =>
            /\ pc[r] = "respond" =>
                 /\ writes[r] = 1
                 /\ w[r].Code = StatusInternalServerError
                 /\ w[r].Body = <<ErrorDocument(err[r])>>
            /\ pc[r] = "done" =>
                 /\ writes[r] = 2
                 /\ w[r].Code = StatusInternalServerError
                 /\ w[r].Body = <<ErrorDocument(err[r]), IdDocument(lastId[r])>>)
  /\ [][\A r \in Requests :
          (pc[r] = "check" /\ pc'[r] # pc[r]) => pc'[r] = "respond"]_vars

C35_Witness ==
  \E r \in Requests :
    /\ pc[r] = "done"
    /\ StorageFailed(r)
    /\ Len(w[r].Body) = 2
    /\ w[r].Body[1] = ErrorDocument(err[r])
    /\ w[r].Body[2] = IdDocument(0)

(* C36: the handler logs 'user created' once after each CreateStudent      *)
(* call, before it looks at the error and before any response is written,  *)
(* with the identifier the call returned, which is 0 when the call failed. *)
UserCreated(n) == [msg |-> "user created", userId |-> Itoa(n)]

C36_CreatedLoggedAfterEveryCall ==
  /\ [](\A r \in Requests :
          /\ pc[r] \in {"check", "respond", "done"} /\ calls[r] >= 1 =>
               log[r] = <<UserCreated(lastId[r])>>
          /\ (calls[r] = 0 \/ pc[r] = "log") => log[r] = <<>>
          /\ (StorageFailed(r) /\ pc[r] # "log") => log[r] = <<UserCreated(0)>>)
  /\ [][\A r \in Requests :
          log'[r] # log[r] =>
            /\ pc[r] = "log"
            /\ pc'[r] = "check"
            /\ writes[r] = 0
            /\ calls[r] = 1]_vars

C36_Witness ==
  \E r \in Requests :
    /\ StorageFailed(r)
    /\ pc[r] = "check"
    /\ writes[r] = 0
    /\ log[r] = <<UserCreated(0)>>

====
